---- MODULE Spec2Model ----
(***************************************************************************)
(* Model of image_to_webp.py: the size resolver get_target_size, the       *)
(* per-image pipeline process_image, and the batch loop of main.           *)
(*                                                                         *)
(* Three specifications share the variables below:                         *)
(*   SpecSize  - get_target_size applied to bounded inputs (pure function) *)
(*   SpecImage - process_image on one decoded image, step by step          *)
(*   Spec      - main: consecutive runs over one input/output directory    *)
(***************************************************************************)
EXTENDS Integers, Sequences, FiniteSets

\* ---------------------------------------------------------------- bounds
\* largest width/height of an original image
MaxDim == 8
\* largest requested target width/height
MaxTarget == 4
\* largest number of entries in the input directory
MaxEntries == 3
\* number of consecutive runs of main on the same directories
MaxRuns == 2

VARIABLES
    \* ---- get_target_size / process_image
    original_size,      \* img.size as decoded (stored orientation)
    target_size,        \* (args.width, args.height)
    keep_aspect_ratio,  \* --keep-aspect-ratio
    no_upscale,         \* --no-upscale
    orientation,        \* EXIF orientation tag of the image, 0 = no tag
    ipc,                \* position inside the call
    target,             \* value returned by get_target_size
    oriented_size,      \* size of ImageOps.exif_transpose(img)
    resized_size,       \* size of the resized (and saved) image
    \* ---- main
    input_is_dir,       \* args.input_dir.is_dir()
    entries,            \* args.input_dir.iterdir()
    overwrite,          \* --overwrite
    out_dir_exists,     \* args.output_dir exists
    out_files,          \* content of <stem>.webp in output_dir, per stem
    pc,                 \* position inside main
    files,              \* sorted candidate list
    i,                  \* index of the candidate the for loop is at
    processed,
    skipped,
    errors,
    log,                \* one printed line per candidate, in order
    opened,             \* names passed to Image.open in this run
    written,            \* stems whose output was saved in this run
    exit_code,          \* value returned by main, -1 while running
    run,                \* number of the current run
    prev_log,           \* log of the previous run
    prev_exit           \* exit code of the previous run, -1 if none

sizeVars == <<original_size, target_size, keep_aspect_ratio, no_upscale,
              orientation, ipc, target, oriented_size, resized_size>>

mainVars == <<input_is_dir, entries, overwrite, out_dir_exists, out_files, pc,
              files, i, processed, skipped, errors, log, opened, written,
              exit_code, run, prev_log, prev_exit>>

vars == <<sizeVars, mainVars>>

\* ------------------------------------------------------------ arithmetic
Min(a, b) == IF a <= b THEN a ELSE b

Max(a, b) == IF a >= b THEN a ELSE b

Abs(a) == IF a >= 0 THEN a ELSE 0 - a

\* A scale is a non-negative rational <<num, den>>, den > 0.
\* min(x, y) on scales; on equal values either operand is the same number.
ScaleMin(x, y) == IF x[1] * y[2] <= y[1] * x[2] THEN x ELSE y

\* Python round() on a non-negative rational n/d: nearest, ties to even.
RoundHalfEven(n, d) ==
    LET q == n \div d
        r == n % d
    IN  IF 2 * r < d THEN q
        ELSE IF 2 * r > d THEN q + 1
        ELSE IF q % 2 = 0 THEN q ELSE q + 1

\* ------------------------------------------------------- get_target_size
\* scale = min(scale_w, scale_h), then min(scale, 1.0) under no_upscale
UniformScale(original, tgt, noUp) ==
    LET scale_w == <<tgt[1], original[1]>>
        scale_h == <<tgt[2], original[2]>>
        scale   == ScaleMin(scale_w, scale_h)
    IN  IF noUp THEN ScaleMin(scale, <<1, 1>>) ELSE scale

\* changed copy of AspectSize: the larger of the two scales is used
AspectSize_maxScale(original, tgt, noUp) ==
    IF original[1] = 0 \/ original[2] = 0
    THEN original
    ELSE LET scale_w == <<tgt[1], original[1]>>
             scale_h == <<tgt[2], original[2]>>
             big     == IF ScaleMin(scale_w, scale_h) = scale_w
                        THEN scale_h ELSE scale_w
             scale   == IF noUp THEN ScaleMin(big, <<1, 1>>) ELSE big
         IN  << Max(1, RoundHalfEven(original[1] * scale[1], scale[2])),
                Max(1, RoundHalfEven(original[2] * scale[1], scale[2])) >>

\* changed copy of AspectSize: a zero-area original is floored at 1 as well
AspectSize_floorZero(original, tgt, noUp) ==
    IF original[1] = 0 \/ original[2] = 0
    THEN << Max(1, original[1]), Max(1, original[2]) >>
    ELSE LET scale == UniformScale(original, tgt, noUp)
         IN  << Max(1, RoundHalfEven(original[1] * scale[1], scale[2])),
                Max(1, RoundHalfEven(original[2] * scale[1], scale[2])) >>

\* the keep_aspect_ratio branch
AspectSize(original, tgt, noUp) ==
    IF original[1] = 0 \/ original[2] = 0
    THEN original
    ELSE LET scale == UniformScale(original, tgt, noUp)
         IN  << Max(1, RoundHalfEven(original[1] * scale[1], scale[2])),
                Max(1, RoundHalfEven(original[2] * scale[1], scale[2])) >>

\* changed copy of FixedSize: no_upscale clamps both axes by one common test
FixedSize_jointClamp(original, tgt, noUp) ==
    IF noUp /\ original[1] <= tgt[1] /\ original[2] <= tgt[2]
    THEN original
    ELSE tgt

\* the fixed-target branch
FixedSize(original, tgt, noUp) ==
    IF noUp
    THEN << Min(original[1], tgt[1]), Min(original[2], tgt[2]) >>
    ELSE tgt

get_target_size(original, tgt, keepAspect, noUp) ==
    IF keepAspect
    THEN AspectSize(original, tgt, noUp)
    ELSE FixedSize(original, tgt, noUp)

\* ----------------------------------------------------------- exif_transpose
\* EXIF orientation tags 5..8 transpose or rotate by 90 degrees: the image
\* returned by ImageOps.exif_transpose has width and height swapped.
Orientations == 0 .. 8

OrientedSize(size, tag) ==
    IF tag \in 5 .. 8 THEN <<size[2], size[1]>> ELSE size

NoSize == <<-1, -1>>

\* ------------------------------------------------------------ input dir
SUPPORTED_EXTENSIONS == {".jpg", ".jpeg", ".png"}

\* str.lower() on the suffixes that occur
Lower(suffix) ==
    CASE suffix = ".PNG" -> ".png"
      [] suffix = ".JPG" -> ".jpg"
      [] OTHER -> suffix

\* The directory entries a run may find, listed in the order Path.__lt__
\* gives them (byte order of the name: upper case before lower case).
\* name = Path.name, stem = Path.stem, suffix = Path.suffix.
DirUniverse ==
    << [name |-> "a.PNG",  stem |-> "a", suffix |-> ".PNG",  is_file |-> TRUE],
       [name |-> "a.jpg",  stem |-> "a", suffix |-> ".jpg",  is_file |-> TRUE],
       [name |-> "b.jpeg", stem |-> "b", suffix |-> ".jpeg", is_file |-> TRUE],
       [name |-> "c.png",  stem |-> "c", suffix |-> ".png",  is_file |-> FALSE],
       [name |-> "d.txt",  stem |-> "d", suffix |-> ".txt",  is_file |-> TRUE] >>

Entries == { DirUniverse[k] : k \in 1 .. Len(DirUniverse) }

Stems == { e.stem : e \in Entries }

Rank(e) == CHOOSE k \in 1 .. Len(DirUniverse) : DirUniverse[k] = e

\* sorted(...) of a set of paths
RECURSIVE sorted(_)
sorted(S) ==
    IF S = {} THEN <<>>
    ELSE LET first == CHOOSE e \in S : \A o \in S : Rank(e) <= Rank(o)
         IN  <<first>> \o sorted(S \ {first})

\* p.is_file() and p.suffix.lower() in SUPPORTED_EXTENSIONS
IsCandidate(e) ==
    e.is_file /\ Lower(e.suffix) \in SUPPORTED_EXTENSIONS

\* changed copy of ShouldSkip: the overwrite flag is read the wrong way round
ShouldSkip_flagInverted(exists, ovw) == exists /\ ovw

\* changed copy of ShouldSkip: the overwrite flag is not consulted
ShouldSkip_never(exists, ovw) == FALSE

\* output_path.exists() and not args.overwrite
ShouldSkip(exists, ovw) == exists /\ ~ovw

\* changed copy of ExitStatus: a single error is tolerated
ExitStatus_offByOne(errs) == IF errs > 1 THEN 1 ELSE 0

\* return 1 if errors else 0
ExitStatus(errs) == IF errs # 0 THEN 1 ELSE 0

\* content of an output path: "none" = no file, "old" = a file that was there
\* before the first run, "partial" = left behind by a save that raised,
\* otherwise the name of the input it was encoded from
Contents == {"none", "old", "partial"} \cup { e.name : e \in Entries }

Exists(stem) == out_files[stem] # "none"

Current == files[i]

AllSkipped(l) == \A k \in 1 .. Len(l) : l[k] = "Skipped"

AnyFailed(l) == \E k \in 1 .. Len(l) : l[k] = "Failed"

\* ----------------------------------------------------------------- Init
SizeIdle ==
    /\ original_size = <<1, 1>>
    /\ target_size = <<1, 1>>
    /\ keep_aspect_ratio = FALSE
    /\ no_upscale = FALSE
    /\ orientation = 0
    /\ ipc = "idle"
    /\ target = NoSize
    /\ oriented_size = NoSize
    /\ resized_size = NoSize

MainIdle ==
    /\ input_is_dir = FALSE
    /\ entries = {}
    /\ overwrite = FALSE
    /\ out_dir_exists = FALSE
    /\ out_files = [s \in Stems |-> "none"]
    /\ pc = "idle"
    /\ files = <<>>
    /\ i = 1
    /\ processed = 0
    /\ skipped = 0
    /\ errors = 0
    /\ log = <<>>
    /\ opened = {}
    /\ written = {}
    /\ exit_code = -1
    /\ run = 1
    /\ prev_log = <<>>
    /\ prev_exit = -1

\* arguments as parse_args lets them through: width and height positive
ArgsInit ==
    /\ target_size \in (1 .. MaxTarget) \X (1 .. MaxTarget)
    /\ keep_aspect_ratio \in BOOLEAN
    /\ no_upscale \in BOOLEAN

InitSize ==
    /\ original_size \in (0 .. MaxDim) \X (0 .. MaxDim)
    /\ ArgsInit
    /\ orientation = 0
    /\ ipc = "call"
    /\ target = NoSize
    /\ oriented_size = NoSize
    /\ resized_size = NoSize
    /\ MainIdle

InitImage ==
    /\ original_size \in (1 .. MaxDim) \X (1 .. MaxDim)
    /\ ArgsInit
    /\ orientation \in Orientations
    /\ ipc = "call"
    /\ target = NoSize
    /\ oriented_size = NoSize
    /\ resized_size = NoSize
    /\ MainIdle

Init ==
    /\ SizeIdle
    /\ input_is_dir \in BOOLEAN
    /\ entries \in { S \in SUBSET Entries :
                       /\ Cardinality(S) <= MaxEntries
                       /\ (~input_is_dir => S = {}) }
    /\ overwrite \in BOOLEAN
    /\ out_dir_exists \in BOOLEAN
    /\ out_files \in [Stems -> {"none", "old"}]
    /\ (~out_dir_exists => \A s \in Stems : out_files[s] = "none")
    /\ pc = "start"
    /\ files = <<>>
    /\ i = 1
    /\ processed = 0
    /\ skipped = 0
    /\ errors = 0
    /\ log = <<>>
    /\ opened = {}
    /\ written = {}
    /\ exit_code = -1
    /\ run = 1
    /\ prev_log = <<>>
    /\ prev_exit = -1

\* ------------------------------------------------ SpecSize: get_target_size
CallGetTargetSize ==
    /\ ipc = "call"
    /\ target' = get_target_size(original_size, target_size,
                                 keep_aspect_ratio, no_upscale)
    /\ ipc' = "returned"
    /\ UNCHANGED <<original_size, target_size, keep_aspect_ratio, no_upscale,
                   orientation, oriented_size, resized_size>>
    /\ UNCHANGED mainVars

NextSize == CallGetTargetSize

SpecSize == InitSize /\ [][NextSize]_vars

\* ------------------------------------------------- SpecImage: process_image
\* with Image.open(input_path) as img
ImgOpen ==
    /\ ipc = "call"
    /\ ipc' = "opened"
    /\ UNCHANGED <<original_size, target_size, keep_aspect_ratio, no_upscale,
                   orientation, target, oriented_size, resized_size>>
    /\ UNCHANGED mainVars

\* target = get_target_size(img.size, target_size, ...)
ImgGetTargetSize ==
    /\ ipc = "opened"
    /\ target' = get_target_size(original_size, target_size,
                                 keep_aspect_ratio, no_upscale)
    /\ ipc' = "sized"
    /\ UNCHANGED <<original_size, target_size, keep_aspect_ratio, no_upscale,
                   orientation, oriented_size, resized_size>>
    /\ UNCHANGED mainVars

\* ImageOps.exif_transpose(img)
ImgTranspose ==
    /\ ipc = "sized"
    /\ oriented_size' = OrientedSize(original_size, orientation)
    /\ ipc' = "oriented"
    /\ UNCHANGED <<original_size, target_size, keep_aspect_ratio, no_upscale,
                   orientation, target, resized_size>>
    /\ UNCHANGED mainVars

\* .resize(target, resample=LANCZOS)
ImgResize ==
    /\ ipc = "oriented"
    /\ resized_size' = target
    /\ ipc' = "resized"
    /\ UNCHANGED <<original_size, target_size, keep_aspect_ratio, no_upscale,
                   orientation, target, oriented_size>>
    /\ UNCHANGED mainVars

\* resized.save(output_path, **save_kwargs)
ImgSave ==
    /\ ipc = "resized"
    /\ ipc' = "saved"
    /\ UNCHANGED <<original_size, target_size, keep_aspect_ratio, no_upscale,
                   orientation, target, oriented_size, resized_size>>
    /\ UNCHANGED mainVars

\* Image.open or save raises: the exception leaves process_image
ImgRaise ==
    /\ ipc \in {"call", "resized"}
    /\ ipc' = "raised"
    /\ UNCHANGED <<original_size, target_size, keep_aspect_ratio, no_upscale,
                   orientation, target, oriented_size, resized_size>>
    /\ UNCHANGED mainVars

NextImage ==
    \/ ImgOpen
    \/ ImgGetTargetSize
    \/ ImgTranspose
    \/ ImgResize
    \/ ImgSave
    \/ ImgRaise

SpecImage == InitImage /\ [][NextImage]_vars

\* ------------------------------------------------------------- Spec: main
\* changed copy of MainInputMissing: the output directory is made first
MainInputMissing_mkdirFirst ==
    /\ pc = "start"
    /\ ~input_is_dir
    /\ out_dir_exists' = TRUE
    /\ exit_code' = 1
    /\ pc' = "done"
    /\ UNCHANGED <<input_is_dir, entries, overwrite, out_files, files, i,
                   processed, skipped, errors, log, opened, written, run,
                   prev_log, prev_exit>>
    /\ UNCHANGED sizeVars

\* if not args.input_dir.is_dir(): return 1
MainInputMissing ==
    /\ pc = "start"
    /\ ~input_is_dir
    /\ exit_code' = 1
    /\ pc' = "done"
    /\ UNCHANGED <<input_is_dir, entries, overwrite, out_dir_exists, out_files,
                   files, i, processed, skipped, errors, log, opened, written,
                   run, prev_log, prev_exit>>
    /\ UNCHANGED sizeVars

\* mkdir, enumerate; if not files: return 0
MainNoImages ==
    /\ pc = "start"
    /\ input_is_dir
    /\ { e \in entries : IsCandidate(e) } = {}
    /\ out_dir_exists' = TRUE
    /\ files' = <<>>
    /\ exit_code' = 0
    /\ pc' = "done"
    /\ UNCHANGED <<input_is_dir, entries, overwrite, out_files, i, processed,
                   skipped, errors, log, opened, written, run, prev_log,
                   prev_exit>>
    /\ UNCHANGED sizeVars

\* mkdir, enumerate and sort, zero the counters, enter the for loop
MainEnumerate ==
    /\ pc = "start"
    /\ input_is_dir
    /\ { e \in entries : IsCandidate(e) } # {}
    /\ out_dir_exists' = TRUE
    /\ files' = sorted({ e \in entries : IsCandidate(e) })
    /\ processed' = 0
    /\ skipped' = 0
    /\ errors' = 0
    /\ i' = 1
    /\ pc' = "loop"
    /\ UNCHANGED <<input_is_dir, entries, overwrite, out_files, log, opened,
                   written, exit_code, run, prev_log, prev_exit>>
    /\ UNCHANGED sizeVars

\* output exists and no --overwrite: print, skipped += 1, continue
LoopSkip ==
    /\ pc = "loop"
    /\ i <= Len(files)
    /\ ShouldSkip(Exists(Current.stem), overwrite)
    /\ log' = Append(log, "Skipped")
    /\ skipped' = skipped + 1
    /\ i' = i + 1
    /\ UNCHANGED <<input_is_dir, entries, overwrite, out_dir_exists, out_files,
                   pc, files, processed, errors, opened, written, exit_code,
                   run, prev_log, prev_exit>>
    /\ UNCHANGED sizeVars

\* process_image returns: the output is written, processed += 1
LoopProcessed ==
    /\ pc = "loop"
    /\ i <= Len(files)
    /\ ~ShouldSkip(Exists(Current.stem), overwrite)
    /\ opened' = opened \cup {Current.name}
    /\ out_files' = [out_files EXCEPT ![Current.stem] = Current.name]
    /\ written' = written \cup {Current.stem}
    /\ log' = Append(log, "Processed")
    /\ processed' = processed + 1
    /\ i' = i + 1
    /\ UNCHANGED <<input_is_dir, entries, overwrite, out_dir_exists, pc, files,
                   skipped, errors, exit_code, run, prev_log, prev_exit>>
    /\ UNCHANGED sizeVars

\* changed copy of LoopFailed: the exception is not caught and ends main
LoopFailed_abort ==
    /\ pc = "loop"
    /\ i <= Len(files)
    /\ ~ShouldSkip(Exists(Current.stem), overwrite)
    /\ opened' = opened \cup {Current.name}
    /\ \E left \in {out_files[Current.stem], "partial"} :
          out_files' = [out_files EXCEPT ![Current.stem] = left]
    /\ exit_code' = 1
    /\ pc' = "done"
    /\ UNCHANGED <<input_is_dir, entries, overwrite, out_dir_exists, files, i,
                   processed, skipped, errors, log, written, run, prev_log,
                   prev_exit>>
    /\ UNCHANGED sizeVars

\* process_image raises: caught, printed, errors += 1.  A failure before the
\* save leaves the output path as it was; a save that raises may leave a
\* truncated file behind.
LoopFailed ==
    /\ pc = "loop"
    /\ i <= Len(files)
    /\ ~ShouldSkip(Exists(Current.stem), overwrite)
    /\ opened' = opened \cup {Current.name}
    /\ \E left \in {out_files[Current.stem], "partial"} :
          out_files' = [out_files EXCEPT ![Current.stem] = left]
    /\ log' = Append(log, "Failed")
    /\ errors' = errors + 1
    /\ i' = i + 1
    /\ UNCHANGED <<input_is_dir, entries, overwrite, out_dir_exists, pc, files,
                   processed, skipped, written, exit_code, run, prev_log,
                   prev_exit>>
    /\ UNCHANGED sizeVars

\* the loop is exhausted: print the summary, return 1 if errors else 0
MainReturn ==
    /\ pc = "loop"
    /\ i > Len(files)
    /\ exit_code' = ExitStatus(errors)
    /\ pc' = "done"
    /\ UNCHANGED <<input_is_dir, entries, overwrite, out_dir_exists, out_files,
                   files, i, processed, skipped, errors, log, opened, written,
                   run, prev_log, prev_exit>>
    /\ UNCHANGED sizeVars

\* the command is run again with the same arguments on the same directories
NextRun ==
    /\ pc = "done"
    /\ run < MaxRuns
    /\ run' = run + 1
    /\ prev_log' = log
    /\ prev_exit' = exit_code
    /\ pc' = "start"
    /\ files' = <<>>
    /\ i' = 1
    /\ processed' = 0
    /\ skipped' = 0
    /\ errors' = 0
    /\ log' = <<>>
    /\ opened' = {}
    /\ written' = {}
    /\ exit_code' = -1
    /\ UNCHANGED <<input_is_dir, entries, overwrite, out_dir_exists, out_files>>
    /\ UNCHANGED sizeVars

Next ==
    \/ MainInputMissing
    \/ MainNoImages
    \/ MainEnumerate
    \/ LoopSkip
    \/ LoopProcessed
    \/ LoopFailed
    \/ MainReturn
    \/ NextRun

Spec == Init /\ [][Next]_vars

\* ================================================================ claims
Count(l, what) == Cardinality({ k \in 1 .. Len(l) : l[k] = what })

\* C1: when main has returned, the exit status is 0 or 1, and it is 1 exactly
\* when the input directory is missing or some candidate of the run was
\* reported Failed; runs with only Processed and Skipped lines, and runs that
\* find no candidate, return 0.
C1_ExitStatus ==
    pc = "done" =>
        /\ exit_code \in {0, 1}
        /\ (exit_code = 1) <=> (~input_is_dir \/ AnyFailed(log))

\* a finished run with a Processed and a Skipped candidate, none Failed, exit 0
C1_Witness ==
    /\ pc = "done"
    /\ exit_code = 0
    /\ Count(log, "Processed") >= 1
    /\ Count(log, "Skipped") >= 1

\* C2: a failing candidate never ends the loop: while the loop runs, the
\* candidates before position i each have exactly one outcome line and the
\* three counters count those lines; when main returns after the loop, every
\* candidate has its outcome and processed + skipped + errors = len(files).
C2_EveryCandidateOneOutcome ==
    /\ \A k \in 1 .. Len(log) : log[k] \in {"Processed", "Skipped", "Failed"}
    /\ processed = Count(log, "Processed")
    /\ skipped = Count(log, "Skipped")
    /\ errors = Count(log, "Failed")
    /\ pc = "loop" => Len(log) = i - 1 /\ i <= Len(files) + 1
    /\ pc = "done" =>
          /\ Len(log) = Len(files)
          /\ processed + skipped + errors = Len(files)

\* a finished run whose first candidate failed and whose last was processed
C2_Witness ==
    /\ pc = "done"
    /\ Len(files) >= 3
    /\ log[1] = "Failed"
    /\ log[Len(files)] = "Processed"
    /\ processed + skipped + errors = Len(files)

\* C3: whenever the loop stands at a candidate whose output path exists and
\* overwrite is false, the step taken records Skipped, opens no input, leaves
\* every output file as it is, leaves processed and errors alone, and moves
\* to the next candidate.
C3_SkipTouchesNothing ==
    [][ (pc = "loop" /\ i <= Len(files) /\ Exists(Current.stem) /\ ~overwrite)
        => /\ log' = Append(log, "Skipped")
           /\ skipped' = skipped + 1
           /\ opened' = opened
           /\ written' = written
           /\ out_files' = out_files
           /\ processed' = processed
           /\ errors' = errors
           /\ files' = files
           /\ i' = i + 1
           /\ pc' = "loop" ]_vars

\* a pre-existing output was skipped and a later candidate was then processed
C3_Witness ==
    /\ ~overwrite
    /\ run = 1
    /\ \E k \in 1 .. Len(log) :
          /\ log[k] = "Skipped"
          /\ out_files[files[k].stem] = "old"
          /\ files[k].name \notin opened
          /\ \E m \in (k + 1) .. Len(log) : log[m] = "Processed"

C5_MissingInputIsFatal ==
    [][ ~input_is_dir
        => /\ out_dir_exists' = out_dir_exists
           /\ out_files' = out_files
           /\ files' = <<>>
           /\ opened' = {}
           /\ written' = {}
           /\ log' = <<>>
           /\ (pc = "start" => pc' = "done" /\ exit_code' = 1) ]_vars

\* main returned 1 for a missing input directory; no output directory exists
C5_Witness ==
    /\ pc = "done"
    /\ ~input_is_dir
    /\ exit_code = 1
    /\ ~out_dir_exists

\* C6 as stated: a zero width or height of the original makes get_target_size
\* return the original, whatever the flags.
C6_AsStated ==
    (ipc = "returned" /\ (original_size[1] = 0 \/ original_size[2] = 0)) =>
        target = original_size

\* C6 amended: with keep_aspect_ratio set, a zero width or height of the
\* original makes get_target_size return the original, for every target and
\* either value of no_upscale.
C6_ZeroOriginalKeepAspect ==
    (ipc = "returned" /\ keep_aspect_ratio
        /\ (original_size[1] = 0 \/ original_size[2] = 0)) =>
        target = original_size

\* a zero-width original of positive height came back unchanged
C6_Witness ==
    /\ ipc = "returned"
    /\ keep_aspect_ratio
    /\ original_size[1] = 0
    /\ original_size[2] > 1
    /\ target = original_size

\* C7: for positive original and target with keep_aspect_ratio, with
\* s = min(tw/ow, th/oh), capped at 1 under no_upscale, each returned axis is
\* the integer nearest to original axis * s unless that is floored to 1, is
\* within 1 px of original axis * s, is at least 1 and at most the target axis.
C7_UniformScale ==
    (ipc = "returned" /\ keep_aspect_ratio
        /\ original_size[1] > 0 /\ original_size[2] > 0) =>
        LET ow == original_size[1]
            oh == original_size[2]
            tw == target_size[1]
            th == target_size[2]
            byW == tw * oh <= th * ow
            n0 == IF byW THEN tw ELSE th
            d0 == IF byW THEN ow ELSE oh
            n == IF no_upscale /\ n0 > d0 THEN 1 ELSE n0
            d == IF no_upscale /\ n0 > d0 THEN 1 ELSE d0
            AxisOK(r, o, t) ==
                /\ r >= 1
                /\ r <= t
                /\ Abs(r * d - o * n) <= d
                /\ (r = 1 \/ 2 * Abs(r * d - o * n) <= d)
        IN  /\ AxisOK(target[1], ow, tw)
            /\ AxisOK(target[2], oh, th)

\* 8x6 into a 4x4 box with both flags comes back as 4x3
C7_Witness ==
    /\ ipc = "returned"
    /\ keep_aspect_ratio
    /\ no_upscale
    /\ original_size = <<8, 6>>
    /\ target_size = <<4, 4>>
    /\ target = <<4, 3>>

\* C8: without keep_aspect_ratio, get_target_size returns the target itself
\* when no_upscale is off, and the per-axis minimum of original and target
\* when no_upscale is on.
C8_FixedTarget ==
    (ipc = "returned" /\ ~keep_aspect_ratio) =>
        IF no_upscale
        THEN /\ target[1] = IF original_size[1] <= target_size[1]
                            THEN original_size[1] ELSE target_size[1]
             /\ target[2] = IF original_size[2] <= target_size[2]
                            THEN original_size[2] ELSE target_size[2]
        ELSE target = target_size

\* one axis kept from the original, the other clamped to the target
C8_Witness ==
    /\ ipc = "returned"
    /\ ~keep_aspect_ratio
    /\ no_upscale
    /\ 0 < original_size[1]
    /\ original_size[1] < target_size[1]
    /\ original_size[2] > target_size[2]
    /\ target = <<original_size[1], target_size[2]>>

\* C9: with keep_aspect_ratio, the size the image is resized to and saved at
\* is the one get_target_size gives for the display-oriented image.
C9_SizeFromOrientedImage ==
    (ipc = "saved" /\ keep_aspect_ratio) =>
        resized_size = get_target_size(OrientedSize(original_size, orientation),
                                       target_size, TRUE, no_upscale)

\* C10: at the end of a run every candidate reported Processed has its own
\* output file, the run wrote as many output files as it reports processed,
\* and no candidate was skipped because of a file the same run wrote.
C10_OneOutputPerProcessed ==
    pc = "done" =>
        /\ \A k \in 1 .. Len(log) :
              log[k] = "Processed" => out_files[files[k].stem] = files[k].name
        /\ Cardinality(written) = processed
        /\ \A k \in 1 .. Len(log) :
              log[k] = "Skipped" => files[k].stem \notin written

====
